---- MODULE Spec2Model ----
(***************************************************************************)
(* Model of Keylogger/src/Main.cpp: the low-level keyboard hook procedure  *)
(* `procedure`, its five static modifier flags, the local string `log` it  *)
(* builds on every call, the console it writes to, and the pure helper     *)
(* `translate`.  Text is modelled with TLA+ strings, a character being a   *)
(* string of length one.                                                   *)
(***************************************************************************)
EXTENDS Integers, Sequences, FiniteSets, TLC

VARIABLES
    win,      \* static bool win     (Main.cpp:67)
    shift,    \* static bool shift   (Main.cpp:68)
    caps,     \* static bool caps    (Main.cpp:69)
    ctrl,     \* static bool ctrl    (Main.cpp:70)
    alt,      \* static bool alt     (Main.cpp:71)
    log,      \* std::string log at the return of the last call (Main.cpp:73)
    console,  \* every character WriteConsoleA has written so far (Main.cpp:365)
    ev,       \* arguments of the last call: code, wParam, lParam->vkCode
    hist,     \* the calls made so far, each with the fragment it wrote
    calls,    \* the API calls the last call of procedure made, in order
    ret,      \* what the last call of procedure returned (Main.cpp:366)
    pc,       \* the call wWinMain makes next (Main.cpp:383-397)
    hook,     \* the keyboard hook is installed (Main.cpp:386, 394)
    allocated,\* the console is allocated (Main.cpp:385, 395)
    msg,      \* what the last GetMessageW retrieved (Main.cpp:389)
    retrieved,\* the number of GetMessageW calls that have returned
    status    \* <<>> while wWinMain runs, <<exit status>> once it returned

mainVars == <<pc, hook, allocated, msg, retrieved, status>>

vars == <<win, shift, caps, ctrl, alt, log, console, ev, hist, calls, ret,
          pc, hook, allocated, msg, retrieved, status>>

flags == <<win, shift, caps, ctrl, alt>>

(***************************************************************************)
(* Platform constants used by the source (winuser.h values).               *)
(***************************************************************************)
HC_ACTION == 0
WM_KEYDOWN == 256
WM_KEYUP == 257
WM_SYSKEYDOWN == 260
WM_SYSKEYUP == 261
EXIT_SUCCESS == 0

VK_BACK == 8
VK_TAB == 9
VK_RETURN == 13
VK_CAPITAL == 20
VK_ESCAPE == 27
VK_SPACE == 32
VK_PRIOR == 33
VK_NEXT == 34
VK_END == 35
VK_HOME == 36
VK_LEFT == 37
VK_UP == 38
VK_RIGHT == 39
VK_DOWN == 40
VK_SNAPSHOT == 44
VK_INSERT == 45
VK_DELETE == 46
VK_LWIN == 91
VK_RWIN == 92
VK_LSHIFT == 160
VK_RSHIFT == 161
VK_LCONTROL == 162
VK_RCONTROL == 163
VK_LMENU == 164
VK_RMENU == 165
VK_OEM_1 == 186
VK_OEM_PLUS == 187
VK_OEM_COMMA == 188
VK_OEM_MINUS == 189
VK_OEM_PERIOD == 190
VK_OEM_2 == 191
VK_OEM_3 == 192
VK_OEM_4 == 219
VK_OEM_5 == 220
VK_OEM_6 == 221
VK_OEM_7 == 222

(***************************************************************************)
(* Variants of translate with one slip each, used to show that the         *)
(* properties below depend on it.                                          *)
(***************************************************************************)
\* `shift || caps` instead of `shift ^ caps`.
translateOr(primary, secondary, w, s, c, ct, a) ==
    LET caps1 == IF w \/ ct \/ a THEN FALSE ELSE c
        t1 == IF w \/ ct \/ a THEN "<" ELSE ""
        t2 == IF w THEN t1 \o "WIN + " ELSE t1
        t3 == IF ct THEN t2 \o "CTRL + " ELSE t2
        t4 == IF a THEN t3 \o "ALT + " ELSE t3
        t5 == IF s \/ caps1 THEN t4 \o secondary ELSE t4 \o primary
    IN  IF w \/ ct \/ a THEN t5 \o ">" ELSE t5

\* `caps = false;` left out of the decorated branch.
translateKeepCaps(primary, secondary, w, s, c, ct, a) ==
    LET t1 == IF w \/ ct \/ a THEN "<" ELSE ""
        t2 == IF w THEN t1 \o "WIN + " ELSE t1
        t3 == IF ct THEN t2 \o "CTRL + " ELSE t2
        t4 == IF a THEN t3 \o "ALT + " ELSE t3
        t5 == IF s # c THEN t4 \o secondary ELSE t4 \o primary
    IN  IF w \/ ct \/ a THEN t5 \o ">" ELSE t5

\* The CTRL token appended before the WIN token.
translateCtrlFirst(primary, secondary, w, s, c, ct, a) ==
    LET caps1 == IF w \/ ct \/ a THEN FALSE ELSE c
        t1 == IF w \/ ct \/ a THEN "<" ELSE ""
        t2 == IF ct THEN t1 \o "CTRL + " ELSE t1
        t3 == IF w THEN t2 \o "WIN + " ELSE t2
        t4 == IF a THEN t3 \o "ALT + " ELSE t3
        t5 == IF s # caps1 THEN t4 \o secondary ELSE t4 \o primary
    IN  IF w \/ ct \/ a THEN t5 \o ">" ELSE t5

(***************************************************************************)
(* translate (Main.cpp:28-51).  `caps` is a by-value parameter that the    *)
(* function overwrites with false when win, ctrl or alt is set; the        *)
(* caller's flag is not touched.                                           *)
(***************************************************************************)
translate(primary, secondary, w, s, c, ct, a) ==
    LET caps1 == IF w \/ ct \/ a THEN FALSE ELSE c
        t1 == IF w \/ ct \/ a THEN "<" ELSE ""
        t2 == IF w THEN t1 \o "WIN + " ELSE t1
        t3 == IF ct THEN t2 \o "CTRL + " ELSE t2
        t4 == IF a THEN t3 \o "ALT + " ELSE t3
        t5 == IF s # caps1 THEN t4 \o secondary ELSE t4 \o primary
    IN  IF w \/ ct \/ a THEN t5 \o ">" ELSE t5

(***************************************************************************)
(* The key-down switch of procedure (Main.cpp:81-337), as data.            *)
(***************************************************************************)
\* Cases that append a fixed string (Main.cpp:82-132, VK_CAPITAL excepted).
LiteralTable ==
    { <<VK_BACK, "<BACKSPACE>">>,
      <<VK_TAB, "<TAB>">>,
      <<VK_RETURN, "<RETURN>\r\n">>,
      <<VK_ESCAPE, "<ESC>">>,
      <<VK_SPACE, " ">>,
      <<VK_PRIOR, "<PGDN>">>,
      <<VK_NEXT, "<PGUP>">>,
      <<VK_END, "<END>">>,
      <<VK_HOME, "<HOME>">>,
      <<VK_LEFT, "<LEFT>">>,
      <<VK_UP, "<UP>">>,
      <<VK_RIGHT, "<RIGHT>">>,
      <<VK_DOWN, "<DOWN>">>,
      <<VK_SNAPSHOT, "<PRTSC>">>,
      <<VK_INSERT, "<INS>">>,
      <<VK_DELETE, "<DEL>">> }

\* The character '`' (Main.cpp:318).  A grave accent inside a TLA+ string
\* opens a quotation that runs to the next apostrophe, so the character is
\* cut out of the two-character string grave accent, apostrophe.
Backtick == SubSeq("`'", 1, 1)

\* Cases that append translate(primary, secondary, win, shift, c, ctrl, alt):
\* <<vkCode, primary, secondary, passesCaps>>, passesCaps being TRUE where the
\* call passes the flag caps and FALSE where it passes the literal false
\* (Main.cpp:133-276 and 293-336).
CharTable ==
    { <<48, "0", ")", FALSE>>, <<49, "1", "!", FALSE>>,
      <<50, "2", "@", FALSE>>, <<51, "3", "#", FALSE>>,
      <<52, "4", "$", FALSE>>, <<53, "5", "%", FALSE>>,
      <<54, "6", "^", FALSE>>, <<55, "7", "&", FALSE>>,
      <<56, "8", "*", FALSE>>, <<57, "9", "(", FALSE>>,
      <<65, "a", "A", TRUE>>, <<66, "b", "B", TRUE>>,
      <<67, "c", "C", TRUE>>, <<68, "d", "D", TRUE>>,
      <<69, "e", "E", TRUE>>, <<70, "f", "F", TRUE>>,
      <<71, "g", "G", TRUE>>, <<72, "h", "H", TRUE>>,
      <<73, "i", "I", TRUE>>, <<74, "j", "J", TRUE>>,
      <<75, "k", "K", TRUE>>, <<76, "l", "L", TRUE>>,
      <<77, "m", "M", TRUE>>, <<78, "n", "N", TRUE>>,
      <<79, "o", "O", TRUE>>, <<80, "p", "P", TRUE>>,
      <<81, "q", "Q", TRUE>>, <<82, "r", "R", TRUE>>,
      <<83, "s", "S", TRUE>>, <<84, "t", "T", TRUE>>,
      <<85, "u", "U", TRUE>>, <<86, "v", "V", TRUE>>,
      <<87, "w", "W", TRUE>>, <<88, "x", "X", TRUE>>,
      <<89, "y", "Y", TRUE>>, <<90, "z", "Z", TRUE>>,
      <<VK_OEM_1, ";", ":", TRUE>>,
      <<VK_OEM_PLUS, "=", "+", TRUE>>,
      <<VK_OEM_COMMA, ",", "<", TRUE>>,
      <<VK_OEM_MINUS, "-", "_", TRUE>>,
      <<VK_OEM_PERIOD, ".", ">", TRUE>>,
      <<VK_OEM_2, "/", "?", TRUE>>,
      <<VK_OEM_3, Backtick, "~", TRUE>>,
      <<VK_OEM_4, "[", "{", TRUE>>,
      <<VK_OEM_5, "\\", "|", TRUE>>,
      <<VK_OEM_6, "]", "}", TRUE>>,
      <<VK_OEM_7, "'", "\"", TRUE>> }

LiteralKeys == { t[1] : t \in LiteralTable }
CharKeys == { t[1] : t \in CharTable }
DigitKeys == 48..57
LetterKeys == 65..90
OemKeys == CharKeys \ (DigitKeys \cup LetterKeys)

WinKeys == {VK_LWIN, VK_RWIN}
ShiftKeys == {VK_LSHIFT, VK_RSHIFT}
CtrlKeys == {VK_LCONTROL, VK_RCONTROL}
AltKeys == {VK_LMENU, VK_RMENU}
ModifierKeys == WinKeys \cup ShiftKeys \cup CtrlKeys \cup AltKeys \cup {VK_CAPITAL}

LiteralLabel(vkCode) == (CHOOSE t \in LiteralTable : t[1] = vkCode)[2]
CharEntry(vkCode) == CHOOSE t \in CharTable : t[1] = vkCode
Primary(vkCode) == CharEntry(vkCode)[2]
Secondary(vkCode) == CharEntry(vkCode)[3]

\* The caps argument of the translate call of a character case.
CapsArg(vkCode) == IF CharEntry(vkCode)[4] THEN caps ELSE FALSE

\* Variant: the literal cases routed through translate, hence decorated.
KeyDownTextLiteralDecorated(vkCode) ==
    IF vkCode \in LiteralKeys
    THEN translate(LiteralLabel(vkCode), LiteralLabel(vkCode), win, shift,
                   FALSE, ctrl, alt)
    ELSE IF vkCode \in CharKeys
         THEN translate(Primary(vkCode), Secondary(vkCode), win, shift,
                        CapsArg(vkCode), ctrl, alt)
         ELSE ""

\* Variant: a default case that logs a marker for any other code.
KeyDownTextDefault(vkCode) ==
    IF vkCode \in LiteralKeys THEN LiteralLabel(vkCode)
    ELSE IF vkCode \in CharKeys
         THEN translate(Primary(vkCode), Secondary(vkCode), win, shift,
                        CapsArg(vkCode), ctrl, alt)
         ELSE IF vkCode \in ModifierKeys THEN "" ELSE "<UNKNOWN>"

\* What the key-down switch appends to log (Main.cpp:81-337): a fixed string,
\* the result of translate, or nothing (modifier cases, no matching case).
KeyDownText(vkCode) ==
    IF vkCode \in LiteralKeys THEN LiteralLabel(vkCode)
    ELSE IF vkCode \in CharKeys
         THEN translate(Primary(vkCode), Secondary(vkCode), win, shift,
                        CapsArg(vkCode), ctrl, alt)
         ELSE ""

\* Variant: translate taking caps by reference, so that a decorated
\* translation clears the flag.
KeyDownFlagsCapsByReference(vkCode) ==
    [ win   |-> IF vkCode \in {VK_LWIN, VK_RWIN} THEN TRUE ELSE win,
      shift |-> IF vkCode \in {VK_LSHIFT, VK_RSHIFT} THEN TRUE ELSE shift,
      caps  |-> IF vkCode = VK_CAPITAL THEN ~caps
                ELSE IF vkCode \in CharKeys /\ (win \/ ctrl \/ alt) THEN FALSE
                ELSE caps,
      ctrl  |-> IF vkCode \in {VK_LCONTROL, VK_RCONTROL} THEN TRUE ELSE ctrl,
      alt   |-> IF vkCode \in {VK_LMENU, VK_RMENU} THEN TRUE ELSE alt ]

\* Variant: `caps = true;` instead of `caps = !caps;`.
KeyDownFlagsCapsSet(vkCode) ==
    [ win   |-> IF vkCode \in {VK_LWIN, VK_RWIN} THEN TRUE ELSE win,
      shift |-> IF vkCode \in {VK_LSHIFT, VK_RSHIFT} THEN TRUE ELSE shift,
      caps  |-> IF vkCode = VK_CAPITAL THEN TRUE ELSE caps,
      ctrl  |-> IF vkCode \in {VK_LCONTROL, VK_RCONTROL} THEN TRUE ELSE ctrl,
      alt   |-> IF vkCode \in {VK_LMENU, VK_RMENU} THEN TRUE ELSE alt ]

\* The flags after the key-down switch (Main.cpp:91-93 and 277-292).
KeyDownFlags(vkCode) ==
    [ win   |-> IF vkCode \in {VK_LWIN, VK_RWIN} THEN TRUE ELSE win,
      shift |-> IF vkCode \in {VK_LSHIFT, VK_RSHIFT} THEN TRUE ELSE shift,
      caps  |-> IF vkCode = VK_CAPITAL THEN ~caps ELSE caps,
      ctrl  |-> IF vkCode \in {VK_LCONTROL, VK_RCONTROL} THEN TRUE ELSE ctrl,
      alt   |-> IF vkCode \in {VK_LMENU, VK_RMENU} THEN TRUE ELSE alt ]

\* Variant: `case VK_RSHIFT:` missing from the key-up switch.
KeyUpFlagsLeftShiftOnly(vkCode) ==
    [ win   |-> IF vkCode \in {VK_LWIN, VK_RWIN} THEN FALSE ELSE win,
      shift |-> IF vkCode \in {VK_LSHIFT} THEN FALSE ELSE shift,
      caps  |-> caps,
      ctrl  |-> IF vkCode \in {VK_LCONTROL, VK_RCONTROL} THEN FALSE ELSE ctrl,
      alt   |-> IF vkCode \in {VK_LMENU, VK_RMENU} THEN FALSE ELSE alt ]

\* Variant: caps lock handled as a held key, cleared on key-up.
KeyUpFlagsCapsCleared(vkCode) ==
    [ win   |-> IF vkCode \in {VK_LWIN, VK_RWIN} THEN FALSE ELSE win,
      shift |-> IF vkCode \in {VK_LSHIFT, VK_RSHIFT} THEN FALSE ELSE shift,
      caps  |-> IF vkCode = VK_CAPITAL THEN FALSE ELSE caps,
      ctrl  |-> IF vkCode \in {VK_LCONTROL, VK_RCONTROL} THEN FALSE ELSE ctrl,
      alt   |-> IF vkCode \in {VK_LMENU, VK_RMENU} THEN FALSE ELSE alt ]

\* The flags after the key-up switch (Main.cpp:342-359).
KeyUpFlags(vkCode) ==
    [ win   |-> IF vkCode \in {VK_LWIN, VK_RWIN} THEN FALSE ELSE win,
      shift |-> IF vkCode \in {VK_LSHIFT, VK_RSHIFT} THEN FALSE ELSE shift,
      caps  |-> caps,
      ctrl  |-> IF vkCode \in {VK_LCONTROL, VK_RCONTROL} THEN FALSE ELSE ctrl,
      alt   |-> IF vkCode \in {VK_LMENU, VK_RMENU} THEN FALSE ELSE alt ]

CurrentFlags ==
    [ win |-> win, shift |-> shift, caps |-> caps, ctrl |-> ctrl, alt |-> alt ]

\* Variant: log declared static like the flags, so it keeps its text from
\* one call to the next.
LogStatic == log

\* std::string log; (Main.cpp:73): a fresh, empty local on every call.
LogInit == ""

\* Variant: the key-down switch entered for the key-up messages too.
AppendedOnAnyMessage(code, wParam, vkCode) ==
    IF code = HC_ACTION
       /\ wParam \in {WM_KEYDOWN, WM_SYSKEYDOWN, WM_KEYUP, WM_SYSKEYUP}
    THEN KeyDownText(vkCode)
    ELSE ""

\* The text the call appends to log (Main.cpp:75-363).
Appended(code, wParam, vkCode) ==
    IF code = HC_ACTION /\ wParam \in {WM_KEYDOWN, WM_SYSKEYDOWN}
    THEN KeyDownText(vkCode)
    ELSE ""

\* Variant: `case WM_SYSKEYUP:` missing from the message switch.
FlagsAfterNoSysKeyUp(code, wParam, vkCode) ==
    IF code # HC_ACTION THEN CurrentFlags
    ELSE IF wParam \in {WM_KEYDOWN, WM_SYSKEYDOWN} THEN KeyDownFlags(vkCode)
    ELSE IF wParam \in {WM_KEYUP} THEN KeyUpFlags(vkCode)
    ELSE CurrentFlags

\* The flags at the return of the call (Main.cpp:75-363).
FlagsAfter(code, wParam, vkCode) ==
    IF code # HC_ACTION THEN CurrentFlags
    ELSE IF wParam \in {WM_KEYDOWN, WM_SYSKEYDOWN} THEN KeyDownFlags(vkCode)
    ELSE IF wParam \in {WM_KEYUP, WM_SYSKEYUP} THEN KeyUpFlags(vkCode)
    ELSE CurrentFlags

\* WriteConsoleA(out, log.c_str(), log.length(), NULL, NULL) (Main.cpp:365).
WriteConsoleA(out, text) == out \o text

\* The value the next hook procedure of the chain returns for a call with
\* these arguments (Main.cpp:366).  The next procedure is not part of the
\* program: its result is kept as the term naming the call.
CallNextHookEx(code, wParam, vkCode) ==
    <<"LRESULT", "CallNextHookEx", code, wParam, vkCode>>

\* Variant: the event passed on only when code is not HC_ACTION.
HookCallsSwallowAction(code, wParam, vkCode, text) ==
    IF code = HC_ACTION
    THEN << <<"WriteConsoleA", text>> >>
    ELSE << <<"WriteConsoleA", text>>,
            <<"CallNextHookEx", code, wParam, vkCode>> >>

\* The API calls one call of procedure makes, in order (Main.cpp:365-366).
HookCalls(code, wParam, vkCode, text) ==
    << <<"WriteConsoleA", text>>,
       <<"CallNextHookEx", code, wParam, vkCode>> >>

(***************************************************************************)
(* One call of the hook procedure (Main.cpp:64-367).                       *)
(***************************************************************************)
procedure(code, wParam, vkCode) ==
    LET f == FlagsAfter(code, wParam, vkCode)
        text == LogInit \o Appended(code, wParam, vkCode)
    IN  /\ win' = f.win
        /\ shift' = f.shift
        /\ caps' = f.caps
        /\ ctrl' = f.ctrl
        /\ alt' = f.alt
        /\ log' = text
        /\ console' = WriteConsoleA(console, text)
        /\ ev' = [code |-> code, wParam |-> wParam, vkCode |-> vkCode]
        /\ calls' = HookCalls(code, wParam, vkCode, text)
        /\ ret' = CallNextHookEx(code, wParam, vkCode)
        /\ UNCHANGED mainVars

\* The state when the hook is installed: the statics' initialisers
\* (Main.cpp:67-71), nothing written, no call made.
NoEvent == [code |-> -1, wParam |-> 0, vkCode |-> 0]

\* The statics of procedure before its first call.
ProcedureInit ==
    /\ win = FALSE
    /\ shift = FALSE
    /\ caps = FALSE
    /\ ctrl = FALSE
    /\ alt = FALSE
    /\ log = ""
    /\ console = ""
    /\ ev = NoEvent
    /\ hist = <<>>
    /\ calls = <<>>
    /\ ret = <<>>

\* wWinMain has allocated the console and installed the hook and waits in
\* its first GetMessageW (Main.cpp:385-389).
Init ==
    /\ ProcedureInit
    /\ pc = "GetMessageW"
    /\ hook = TRUE
    /\ allocated = TRUE
    /\ msg = "none"
    /\ retrieved = 0
    /\ status = <<>>

(***************************************************************************)
(* The hook source.  The operating system calls procedure once per         *)
(* keyboard event, one call at a time (Main.cpp:386); hist records the     *)
(* calls in delivery order, each with the fragment the call wrote.         *)
(***************************************************************************)
Event(code, wParam, vkCode) ==
    [code |-> code, wParam |-> wParam, vkCode |-> vkCode]

Deliver(e) ==
    /\ procedure(e.code, e.wParam, e.vkCode)
    /\ hist' = Append(hist, [ev |-> e, log |-> log'])

\* Codes with no case in either switch: the generic VK_SHIFT, VK_CONTROL and
\* VK_MENU (16, 17, 18), VK_APPS (93), VK_NUMPAD0 (96), VK_F1 (112), 255 and
\* the codes that border the handled ranges.
UnmappedKeys == {7, 16, 17, 18, 47, 58, 64, 93, 96, 112, 166, 185, 223, 255}

Messages == {WM_KEYDOWN, WM_KEYUP, WM_SYSKEYDOWN, WM_SYSKEYUP}

\* A call the hook chain makes with code < 0 (not HC_ACTION).
NotAction == HC_ACTION - 1

\* Longest run of calls explored by Spec and by SpecTrack.
MaxEvents == 4
MaxTrackEvents == 3

\* Events of the scenario specification: the keys of the end-to-end
\* scenarios, with releases, a literal key, an unmapped key and a call
\* whose code is not HC_ACTION.
ScenarioEvents ==
    { Event(HC_ACTION, WM_KEYDOWN, k) :
        k \in {VK_LSHIFT, VK_CAPITAL, VK_LCONTROL, VK_LWIN, 65, 67, 49,
               VK_RETURN, 112} }
    \cup { Event(HC_ACTION, WM_KEYUP, k) :
        k \in {VK_LSHIFT, VK_CAPITAL, VK_LCONTROL, 65, VK_RETURN, 112} }
    \cup { Event(NotAction, WM_KEYDOWN, 65) }

Next ==
    \E e \in ScenarioEvents :
        /\ Len(hist) < MaxEvents
        /\ Deliver(e)

Spec == Init /\ [][Next]_vars

\* Events of the modifier-tracking specification: every modifier key, left
\* and right, pressed and released, alt also as a system-key message, and
\* one letter.
TrackEvents ==
    { Event(HC_ACTION, m, k) :
        m \in {WM_KEYDOWN, WM_KEYUP},
        k \in ModifierKeys }
    \cup { Event(HC_ACTION, m, VK_LMENU) : m \in {WM_SYSKEYDOWN, WM_SYSKEYUP} }
    \cup { Event(HC_ACTION, WM_KEYDOWN, 65) }

NextTrack ==
    \E e \in TrackEvents :
        /\ Len(hist) < MaxTrackEvents
        /\ Deliver(e)

SpecTrack == Init /\ [][NextTrack]_vars

\* Events of the table specification: every key of both tables, every
\* modifier key and the unmapped sample, under each of the four messages,
\* and calls whose code is not HC_ACTION, for a letter, a shift key and caps
\* lock under each message.
TableKeys == CharKeys \cup LiteralKeys \cup ModifierKeys \cup UnmappedKeys

TableEvents ==
    { Event(HC_ACTION, m, k) : m \in Messages, k \in TableKeys }
    \cup { Event(NotAction, m, k) :
               m \in Messages, k \in {65, VK_LSHIFT, VK_CAPITAL} }

\* The table specification follows the program up to and including the
\* first call that writes text: every event in every modifier state.
NextTable ==
    \E e \in TableEvents :
        /\ console = ""
        /\ procedure(e.code, e.wParam, e.vkCode)
        /\ UNCHANGED hist

SpecTable == Init /\ [][NextTable]_vars

(***************************************************************************)
(* wWinMain (Main.cpp:383-397): the console, the hook, the message loop    *)
(* and the teardown, one action per call.                                  *)
(***************************************************************************)
\* What GetMessageW may retrieve: an ordinary message of the filter range,
\* for which it returns nonzero, or WM_QUIT, for which it returns 0.
Retrievable == {"ordinary", "quit"}

\* The return value of GetMessageW for what it retrieved.
GetMessageValue(m) == IF m = "quit" THEN 0 ELSE 1

\* while (!GetMessageW(...)) (Main.cpp:389): the body runs when the call
\* returned 0.
LoopCondition(m) == GetMessageValue(m) = 0

\* Longest run of GetMessageW returns, and of hook calls, explored by
\* SpecMain.
MaxMessages == 3
MaxMainCalls == 2

AllocConsole ==
    /\ pc = "AllocConsole"
    /\ allocated' = TRUE
    /\ pc' = "SetWindowsHookExW"
    /\ UNCHANGED <<win, shift, caps, ctrl, alt, log, console, ev, hist,
                   calls, ret, hook, msg, retrieved, status>>

SetWindowsHookExW ==
    /\ pc = "SetWindowsHookExW"
    /\ hook' = TRUE
    /\ pc' = "GetMessageW"
    /\ UNCHANGED <<win, shift, caps, ctrl, alt, log, console, ev, hist,
                   calls, ret, allocated, msg, retrieved, status>>

GetMessageW ==
    /\ pc = "GetMessageW"
    /\ retrieved < MaxMessages
    /\ \E m \in Retrievable :
        /\ msg' = m
        /\ pc' = IF LoopCondition(m) THEN "TranslateMessage"
                 ELSE "UnhookWindowsHookEx"
    /\ retrieved' = retrieved + 1
    /\ UNCHANGED <<win, shift, caps, ctrl, alt, log, console, ev, hist,
                   calls, ret, hook, allocated, status>>

TranslateMessage ==
    /\ pc = "TranslateMessage"
    /\ pc' = "DispatchMessageW"
    /\ UNCHANGED <<win, shift, caps, ctrl, alt, log, console, ev, hist,
                   calls, ret, hook, allocated, msg, retrieved, status>>

DispatchMessageW ==
    /\ pc = "DispatchMessageW"
    /\ pc' = "GetMessageW"
    /\ UNCHANGED <<win, shift, caps, ctrl, alt, log, console, ev, hist,
                   calls, ret, hook, allocated, msg, retrieved, status>>

UnhookWindowsHookEx ==
    /\ pc = "UnhookWindowsHookEx"
    /\ hook' = FALSE
    /\ pc' = "FreeConsole"
    /\ UNCHANGED <<win, shift, caps, ctrl, alt, log, console, ev, hist,
                   calls, ret, allocated, msg, retrieved, status>>

FreeConsole ==
    /\ pc = "FreeConsole"
    /\ allocated' = FALSE
    /\ pc' = "return"
    /\ UNCHANGED <<win, shift, caps, ctrl, alt, log, console, ev, hist,
                   calls, ret, hook, msg, retrieved, status>>

Return ==
    /\ pc = "return"
    /\ status' = <<EXIT_SUCCESS>>
    /\ pc' = "exited"
    /\ UNCHANGED <<win, shift, caps, ctrl, alt, log, console, ev, hist,
                   calls, ret, hook, allocated, msg, retrieved>>

\* Events the hook receives in the lifecycle specification.
MainEvents ==
    { Event(HC_ACTION, WM_KEYDOWN, VK_LSHIFT),
      Event(HC_ACTION, WM_KEYUP, VK_LSHIFT),
      Event(HC_ACTION, WM_KEYDOWN, 65) }

\* A low-level keyboard hook is called on the thread that installed it,
\* while the hook is installed and the thread waits in GetMessageW.
HookCall ==
    /\ pc = "GetMessageW"
    /\ hook
    /\ Len(hist) < MaxMainCalls
    /\ \E e \in MainEvents : Deliver(e)

\* The process starts: nothing allocated, no hook.
InitMain ==
    /\ ProcedureInit
    /\ pc = "AllocConsole"
    /\ hook = FALSE
    /\ allocated = FALSE
    /\ msg = "none"
    /\ retrieved = 0
    /\ status = <<>>

NextMain ==
    \/ AllocConsole
    \/ SetWindowsHookExW
    \/ GetMessageW
    \/ TranslateMessage
    \/ DispatchMessageW
    \/ UnhookWindowsHookEx
    \/ FreeConsole
    \/ Return
    \/ HookCall

SpecMain == InitMain /\ [][NextMain]_vars

(***************************************************************************)
(* Vocabulary of the properties.                                           *)
(***************************************************************************)
IsAction(e) == e.code = HC_ACTION
IsDown(e) == IsAction(e) /\ e.wParam \in {WM_KEYDOWN, WM_SYSKEYDOWN}
IsUp(e) == IsAction(e) /\ e.wParam \in {WM_KEYUP, WM_SYSKEYUP}
Decorated == win \/ ctrl \/ alt

\* "<" + ("WIN + " if meta) + ("CTRL + " if control) + ("ALT + " if alt)
\* + ch + ">".
Bracketed(w, ct, a, ch) ==
    "<" \o (IF w THEN "WIN + " ELSE "") \o (IF ct THEN "CTRL + " ELSE "")
        \o (IF a THEN "ALT + " ELSE "") \o ch \o ">"

\* The fragment of the decoration format for a selected character.
Formatted(w, ct, a, ch) == IF w \/ ct \/ a THEN Bracketed(w, ct, a, ch) ELSE ch

\* The character of a key: its secondary one when useSecondary, else its
\* primary one.
Selected(vkCode, useSecondary) ==
    IF useSecondary THEN Secondary(vkCode) ELSE Primary(vkCode)

(***************************************************************************)
(* C1.  XOR case law.                                                      *)
(***************************************************************************)
\* C1 as stated: for every character-table key (digits included), a key-down
\* delivered while win, ctrl and alt are all false emits exactly the
\* secondary character when shift # caps and the primary one otherwise.
C1_XorOverWholeTable ==
    [][ (IsDown(ev') /\ ev'.vkCode \in CharKeys /\ ~Decorated)
            => log' = Selected(ev'.vkCode, shift # caps) ]_vars

\* C1 amended: for every letter key and every punctuation/OEM key, a key-down
\* delivered while win, ctrl and alt are all false emits exactly the
\* secondary character when shift # caps and the primary one otherwise; for
\* every digit key it emits the secondary character when shift is true and
\* the primary one otherwise, whatever caps is.
C1_XorCaseLaw ==
    [][ (IsDown(ev') /\ ev'.vkCode \in CharKeys /\ ~Decorated)
            => log' = Selected(ev'.vkCode,
                               IF ev'.vkCode \in DigitKeys
                               THEN shift
                               ELSE shift # caps) ]_vars

\* Caps lock on, shift held, no decorating modifier, the letter a pressed:
\* the two cancel and the primary character is written.
C1_Witness ==
    /\ IsDown(ev) /\ ev.vkCode = 65
    /\ shift /\ caps /\ ~Decorated
    /\ log = "a"

(***************************************************************************)
(* C2.  Decoration suppresses caps lock.                                   *)
(***************************************************************************)
\* C2: for every character-table key-down delivered while at least one of
\* win, ctrl, alt is true, the emitted character is the secondary character
\* iff shift is true, whatever the value of caps.
C2_DecorationSuppressesCaps ==
    [][ (IsDown(ev') /\ ev'.vkCode \in CharKeys /\ Decorated)
            => log' = Bracketed(win, ctrl, alt,
                                Selected(ev'.vkCode, shift)) ]_vars

\* Caps lock on, control held, a pressed: "<CTRL + a>".
C2_Witness ==
    /\ IsDown(ev) /\ ev.vkCode = 65
    /\ caps /\ ctrl /\ ~shift /\ ~win /\ ~alt
    /\ log = "<CTRL + a>"

(***************************************************************************)
(* C3.  Decoration format.                                                 *)
(***************************************************************************)
\* C3: for every character-table key-down the fragment is exactly
\* "<" + ("WIN + " if win) + ("CTRL + " if ctrl) + ("ALT + " if alt)
\* + selectedChar + ">" when win, ctrl or alt is true, and exactly the single
\* selected character when none is; the selected character is the key's
\* primary or secondary one, and shift adds neither a token nor brackets.
C3_DecorationFormat ==
    [][ (IsDown(ev') /\ ev'.vkCode \in CharKeys)
            => /\ \E sec \in BOOLEAN :
                    log' = Formatted(win, ctrl, alt, Selected(ev'.vkCode, sec))
               /\ ~Decorated => Len(log') = 1 ]_vars

\* All three decorating modifiers and shift held, a pressed.
C3_Witness ==
    /\ IsDown(ev) /\ ev.vkCode = 65
    /\ win /\ ctrl /\ alt /\ shift
    /\ log = "<WIN + CTRL + ALT + A>"

(***************************************************************************)
(* C6.  Literal-label keys ignore modifiers.                               *)
(***************************************************************************)
\* C6: a key-down of a literal-label key emits the key's fixed string in
\* every modifier state: no brackets or prefix added, no change by shift or
\* caps; the Return fragment is its label followed by "\r\n".
C6_LiteralKeysIgnoreModifiers ==
    [][ (IsDown(ev') /\ ev'.vkCode \in LiteralKeys)
            => /\ log' = LiteralLabel(ev'.vkCode)
               /\ ev'.vkCode = VK_RETURN => log' = "<RETURN>" \o "\r\n" ]_vars

\* Backspace pressed with all five flags set.
C6_Witness ==
    /\ IsDown(ev) /\ ev.vkCode = VK_BACK
    /\ win /\ shift /\ caps /\ ctrl /\ alt
    /\ log = "<BACKSPACE>"

(***************************************************************************)
(* C7.  Unmapped code is silent.                                           *)
(***************************************************************************)
\* C7: an event, key-down or key-up, whose code is in neither table and is
\* no modifier code emits an empty fragment, writes nothing and leaves all
\* five flags unchanged.
C7_UnmappedIsSilent ==
    [][ (IsAction(ev')
         /\ ev'.vkCode \notin (CharKeys \cup LiteralKeys \cup ModifierKeys))
            => /\ log' = ""
               /\ console' = console
               /\ flags' = flags ]_vars

\* F1 pressed while shift and caps lock are on: nothing written, flags kept.
C7_Witness ==
    /\ IsDown(ev) /\ ev.vkCode = 112
    /\ shift /\ caps
    /\ log = "" /\ console = ""

(***************************************************************************)
(* C8.  Routing and frame.                                                 *)
(***************************************************************************)
\* C8: a modifier event, down or up, emits no text and changes at most the
\* flag of its own modifier; a character-table or literal-label key event
\* leaves all five flags unchanged, a decorated translation included: it
\* does not clear caps.
C8_RoutingAndFrame ==
    [][ /\ (IsAction(ev') /\ ev'.vkCode \in ModifierKeys)
            => /\ log' = ""
               /\ ev'.vkCode \notin WinKeys => win' = win
               /\ ev'.vkCode \notin ShiftKeys => shift' = shift
               /\ ev'.vkCode # VK_CAPITAL => caps' = caps
               /\ ev'.vkCode \notin CtrlKeys => ctrl' = ctrl
               /\ ev'.vkCode \notin AltKeys => alt' = alt
        /\ (IsAction(ev') /\ ev'.vkCode \in (CharKeys \cup LiteralKeys))
            => flags' = flags ]_vars

\* Caps lock on, alt held, a pressed: the fragment is lower-case and caps is
\* still set afterwards.
C8_Witness ==
    /\ IsDown(ev) /\ ev.vkCode = 65
    /\ caps /\ alt /\ ~shift /\ ~win /\ ~ctrl
    /\ log = "<ALT + a>"

(***************************************************************************)
(* Vocabulary of the properties over the delivery history.                 *)
(***************************************************************************)
Down(vkCode) == Event(HC_ACTION, WM_KEYDOWN, vkCode)
Up(vkCode) == Event(HC_ACTION, WM_KEYUP, vkCode)

\* The events delivered so far, in delivery order.
Delivered == [i \in 1..Len(hist) |-> hist[i].ev]

\* The position of the most recent event whose key is in keys; 0 if none.
LastOf(keys) ==
    LET I == { i \in 1..Len(hist) :
                 IsAction(hist[i].ev) /\ hist[i].ev.vkCode \in keys }
    IN  IF I = {} THEN 0 ELSE CHOOSE i \in I : \A j \in I : j <= i

\* The most recent event whose key is in keys was a key-down.
LastWasDown(keys) ==
    LastOf(keys) # 0 /\ IsDown(hist[LastOf(keys)].ev)

\* The number of caps-lock key-down events delivered so far.
CapsDowns ==
    Cardinality({ i \in 1..Len(hist) :
                    IsDown(hist[i].ev) /\ hist[i].ev.vkCode = VK_CAPITAL })

\* The fragments of the first n delivered events, concatenated in order.
RECURSIVE Fragments(_)
Fragments(n) == IF n = 0 THEN "" ELSE Fragments(n - 1) \o hist[n].log

\* text is what a single event e may contribute: the label of a literal
\* key, one formatted character of a character key, or nothing.
OneFragment(e, text) ==
    IF IsDown(e) /\ e.vkCode \in LiteralKeys
    THEN text = LiteralLabel(e.vkCode)
    ELSE IF IsDown(e) /\ e.vkCode \in CharKeys
         THEN \E w \in BOOLEAN, ct \in BOOLEAN, a \in BOOLEAN, sec \in BOOLEAN :
                  text = Formatted(w, ct, a, Selected(e.vkCode, sec))
         ELSE text = ""

(***************************************************************************)
(* C4.  Held-modifier tracking with left/right symmetry.                   *)
(***************************************************************************)
\* C4: after any sequence of events, each of win, shift, ctrl, alt is true
\* iff the most recent event whose key is the left or right variant of that
\* modifier was a key-down (false if there was none).
C4_HeldModifierTracking ==
    /\ win = LastWasDown(WinKeys)
    /\ shift = LastWasDown(ShiftKeys)
    /\ ctrl = LastWasDown(CtrlKeys)
    /\ alt = LastWasDown(AltKeys)

\* Left shift pressed, right shift pressed, left shift released: shift is
\* cleared although right shift is still held.
C4_Witness ==
    /\ Delivered = <<Down(VK_LSHIFT), Down(VK_RSHIFT), Up(VK_LSHIFT)>>
    /\ ~shift

(***************************************************************************)
(* C5.  Caps lock is a toggle.                                             *)
(***************************************************************************)
\* C5: after any sequence of events caps is true iff the number of caps-lock
\* key-down events delivered so far is odd (repeated downs with no up in
\* between each flip it), and a caps-lock key-up changes no flag.
C5_CapsLockIsToggle ==
    /\ [](caps <=> (CapsDowns % 2 = 1))
    /\ [][ (IsUp(ev') /\ ev'.vkCode = VK_CAPITAL) => flags' = flags ]_vars

\* Three caps-lock key-downs in a row, no key-up between them: caps is on.
C5_Witness ==
    /\ Delivered = <<Down(VK_CAPITAL), Down(VK_CAPITAL), Down(VK_CAPITAL)>>
    /\ caps

(***************************************************************************)
(* C9.  End-to-end scenarios from the initial state.                       *)
(***************************************************************************)
\* C9: the text written over each of the seven scenario sequences, starting
\* with all five flags false, is exactly the stated string.
C9_EndToEndScenarios ==
    /\ Delivered = <<Down(VK_LSHIFT), Down(65)>> => console = "A"
    /\ Delivered = <<Down(VK_CAPITAL), Up(VK_CAPITAL), Down(65)>>
           => console = "A"
    /\ Delivered = <<Down(VK_CAPITAL), Up(VK_CAPITAL), Down(VK_LSHIFT),
                     Down(65)>>
           => console = "a"
    /\ Delivered = <<Down(VK_LCONTROL), Down(67)>> => console = "<CTRL + c>"
    /\ Delivered = <<Down(VK_LWIN), Down(VK_LCONTROL), Down(65)>>
           => console = "<WIN + CTRL + a>"
    /\ Delivered = <<Down(49)>> => console = "1"
    /\ Delivered = <<Down(VK_LSHIFT), Down(49)>> => console = "!"

\* Scenario 3 has run: caps lock toggled on, shift held, a pressed.
C9_Witness ==
    /\ Delivered = <<Down(VK_CAPITAL), Up(VK_CAPITAL), Down(VK_LSHIFT),
                     Down(65)>>
    /\ console = "a"

(***************************************************************************)
(* C10.  Ordered, unbuffered output.                                       *)
(***************************************************************************)
\* C10: after any event sequence the console holds the concatenation, in
\* delivery order, of the fragments of the events; every event's fragment
\* starts empty, so it is at most one fragment of that event's own key and
\* is empty for an event that emits nothing: no text is carried into a
\* later call.
C10_OrderedUnbufferedOutput ==
    /\ console = Fragments(Len(hist))
    /\ \A i \in 1..Len(hist) : OneFragment(hist[i].ev, hist[i].log)
    /\ Len(hist) > 0 => log = hist[Len(hist)].log

\* Two text events with a silent one between them: the console holds both
\* fragments in delivery order.
C10_Witness ==
    /\ Delivered = <<Down(VK_RETURN), Down(VK_LSHIFT), Down(49)>>
    /\ console = "<RETURN>\r\n!"
    /\ log = "!"

(***************************************************************************)
(* C11.  Caps lock only reaches the keys that caps lock affects.           *)
(***************************************************************************)
\* C11: for every digit key and every punctuation/OEM key a key-down emits
\* the same fragment with caps true as with caps false, the other flags
\* being equal: the character is chosen by shift alone.
C11_CapsOnlyAffectsLetters ==
    [][ (IsDown(ev') /\ ev'.vkCode \in (DigitKeys \cup OemKeys))
            => log' = Formatted(win, ctrl, alt,
                                Selected(ev'.vkCode, shift)) ]_vars

(***************************************************************************)
(* C14.  Text is emitted on key-down only.                                 *)
(***************************************************************************)
\* C14: a key-up of a key that is no modifier (character, literal or
\* unmapped) emits an empty fragment, writes nothing and changes no flag; a
\* press-release pair of a character or literal key emits the key's text
\* once, and a key-down repeated with no key-up between emits it again.
C14_TextOnKeyDownOnly ==
    /\ [][ (IsUp(ev') /\ ev'.vkCode \notin ModifierKeys)
              => /\ log' = ""
                 /\ console' = console
                 /\ flags' = flags ]_vars
    /\ [](/\ \A i \in 1..Len(hist) :
                (IsUp(hist[i].ev) /\ hist[i].ev.vkCode \notin ModifierKeys)
                    => hist[i].log = ""
          /\ Delivered = <<Down(65), Up(65)>> => console = "a"
          /\ Delivered = <<Down(VK_RETURN), Up(VK_RETURN)>>
                 => console = "<RETURN>\r\n"
          /\ Delivered = <<Down(65), Down(65)>> => console = "aa"
          /\ Delivered = <<Down(65), Down(65), Up(65)>> => console = "aa")

\* The letter a held down for two key-downs and then released.
C14_Witness ==
    /\ Delivered = <<Down(65), Down(65), Up(65)>>
    /\ console = "aa"
    /\ log = ""

(***************************************************************************)
(* C15.  Literal labels name the key pressed.                              *)
(***************************************************************************)
\* C15: a Page-Up key-down (VK_PRIOR) emits "<PGUP>" and a Page-Down
\* key-down (VK_NEXT) emits "<PGDN>"; no literal key emits the label of
\* another literal key.
C15_LabelsNameTheKey ==
    [][ /\ (IsDown(ev') /\ ev'.vkCode = VK_PRIOR) => log' = "<PGUP>"
        /\ (IsDown(ev') /\ ev'.vkCode = VK_NEXT) => log' = "<PGDN>" ]_vars

(***************************************************************************)
(* C16.  System-key messages are equivalent to ordinary ones.              *)
(***************************************************************************)
\* The message of the same direction in the other family.
Twin(wParam) ==
    IF wParam = WM_KEYDOWN THEN WM_SYSKEYDOWN
    ELSE IF wParam = WM_SYSKEYDOWN THEN WM_KEYDOWN
    ELSE IF wParam = WM_KEYUP THEN WM_SYSKEYUP
    ELSE WM_KEYUP

\* C16: for every key code and every state, the fragment and the flags
\* after an event are those the same event would give delivered under the
\* message of the same direction in the other family (WM_SYSKEYDOWN for
\* WM_KEYDOWN, WM_SYSKEYUP for WM_KEYUP).
C16_SysKeyEquivalence ==
    [][ (IsAction(ev') /\ ev'.wParam \in Messages)
            => /\ log' = Appended(ev'.code, Twin(ev'.wParam), ev'.vkCode)
               /\ [ win |-> win', shift |-> shift', caps |-> caps',
                    ctrl |-> ctrl', alt |-> alt' ]
                      = FlagsAfter(ev'.code, Twin(ev'.wParam), ev'.vkCode)
       ]_vars

\* Alt held, the letter a delivered as WM_SYSKEYDOWN.
C16_Witness ==
    /\ ev = Event(HC_ACTION, WM_SYSKEYDOWN, 65)
    /\ alt /\ ~win /\ ~ctrl /\ ~shift
    /\ log = "<ALT + a>"

(***************************************************************************)
(* C12.  Hook-chain pass-through.                                          *)
(***************************************************************************)
\* C12: every call of procedure, whatever its code and message, first
\* writes its fragment (possibly empty) to the console and then calls the
\* next hook procedure exactly once with the unmodified code, wParam and
\* lParam, and returns that call's result; when code is not HC_ACTION the
\* fragment is empty and no flag changes.
C12_HookChainPassThrough ==
    /\ [](ev # NoEvent
            => /\ calls = << <<"WriteConsoleA", log>>,
                             <<"CallNextHookEx", ev.code, ev.wParam,
                               ev.vkCode>> >>
               /\ ret = CallNextHookEx(ev.code, ev.wParam, ev.vkCode))
    /\ [][ /\ console' = console \o log'
           /\ ~IsAction(ev') => (log' = "" /\ flags' = flags) ]_vars

\* Shift held; a call whose code is not HC_ACTION carries a shift key-up:
\* nothing is written, shift stays set, the call is passed on unchanged.
C12_Witness ==
    /\ ev = Event(NotAction, WM_KEYUP, VK_LSHIFT)
    /\ shift
    /\ log = ""
    /\ calls = << <<"WriteConsoleA", "">>,
                  <<"CallNextHookEx", NotAction, WM_KEYUP, VK_LSHIFT>> >>
    /\ ret = CallNextHookEx(NotAction, WM_KEYUP, VK_LSHIFT)

(***************************************************************************)
(* C13.  Message loop lifecycle.                                           *)
(***************************************************************************)
\* C13: every ordinary message retrieved is translated and dispatched with
\* the hook still installed; the hook is released only once the loop has
\* ended on the quit message, the console is freed only after the hook is
\* released, and the program then exits with success.
C13_MessageLoopLifecycle ==
    /\ msg = "ordinary"
           => /\ hook
              /\ pc \in {"TranslateMessage", "DispatchMessageW", "GetMessageW"}
    /\ (~hook /\ pc \notin {"AllocConsole", "SetWindowsHookExW"})
           => msg = "quit"
    /\ (~allocated /\ pc # "AllocConsole") => ~hook
    /\ pc = "exited" => (status = <<EXIT_SUCCESS>> /\ ~hook /\ ~allocated)

====
